---- MODULE Spec2Model ----
(***************************************************************************)
(* Model of gexify (src/main.py): the conversion of a Lightning Network    *)
(* JSON graph description into a networkx undirected graph, the two        *)
(* optional reductions and the hand-over to the GEXF writer.               *)
(*                                                                         *)
(* A networkx Graph is modelled as a record                                *)
(*   order : the node identities in insertion order (the key order of the  *)
(*           graph's node dictionary, which fixes iteration order),        *)
(*   node  : node identity -> attribute dictionary,                        *)
(*   adj   : unordered pair of identities (a set of one or two             *)
(*           identities) -> attribute dictionary of the edge.              *)
(* A dictionary is a function from keys (strings) to values.               *)
(***************************************************************************)
EXTENDS Integers, Sequences, FiniteSets, TLC

VARIABLES json_graph, args, pc, graph, exc, trace

vars == <<json_graph, args, pc, graph, exc, trace>>

(***************************************************************************)
(* Bounds of the explored inputs.                                          *)
(***************************************************************************)
\* total number of node and edge records of a document given to the parser
MaxRecords == 3
\* total number of node and edge records of a document given to main
MaxMainRecords == 4

Ids == {"A", "B", "C"}
ParseIds == {"A", "B"}
Stamps == {1, 2}
Versions == {1, 2}
IntRange == 0 .. 60

(***************************************************************************)
(* Python values.                                                          *)
(***************************************************************************)
\* Python's None
None == [none |-> TRUE]

\* an exception leaving a call
Raised(name) == [raised |-> name]

IsRaised(x) == DOMAIN x = {"raised"}

\* the empty dictionary
EmptyDict == [k \in {} |-> 0]

\* dict.update: the keys of e are set, the other keys of d are kept
Update(d, e) ==
    [k \in DOMAIN d \cup DOMAIN e |-> IF k \in DOMAIN e THEN e[k] ELSE d[k]]

\* d[k] = v on a dictionary
SetItem(d, k, v) ==
    [x \in DOMAIN d \cup {k} |-> IF x = k THEN v ELSE d[x]]

\* the dictionary d without the keys in ks
DelItems(d, ks) == [x \in DOMAIN d \ ks |-> d[x]]

\* the elements of a sequence that satisfy keep, in order
RECURSIVE FilterSeq(_, _)
FilterSeq(s, keep) ==
    IF s = <<>> THEN <<>>
    ELSE IF Head(s) \in keep THEN <<Head(s)>> \o FilterSeq(Tail(s), keep)
    ELSE FilterSeq(Tail(s), keep)

\* decimal text of the integers the inputs use
IntStrTable == [n \in IntRange |-> ToString(n)]

\* int(s) on a decimal string
int(s) == CHOOSE n \in IntRange : IntStrTable[n] = s

(***************************************************************************)
(* networkx.Graph                                                          *)
(***************************************************************************)
\* nx.Graph()
NewGraph == [order |-> <<>>, node |-> EmptyDict, adj |-> EmptyDict]

IsGraph(x) == DOMAIN x = {"order", "node", "adj"}

Nodes(G) == DOMAIN G.node

Edges(G) == DOMAIN G.adj

\* add_node that leaves a known node's attribute dictionary as it is
add_node_keep(G, n, attr) ==
    IF n \in DOMAIN G.node
    THEN G
    ELSE [G EXCEPT !.order = Append(G.order, n),
                   !.node = SetItem(G.node, n, attr)]

\* Graph.add_node(n, **attr): a new node is appended, a known node's
\* attribute dictionary is updated
add_node(G, n, attr) ==
    IF n \in DOMAIN G.node
    THEN [G EXCEPT !.node = SetItem(G.node, n, Update(G.node[n], attr))]
    ELSE [G EXCEPT !.order = Append(G.order, n),
                   !.node = SetItem(G.node, n, attr)]

\* add_edge that keeps the values an existing edge already has
add_edge_setdefault(G, u, v, attr) ==
    LET G1 == IF u \in DOMAIN G.node THEN G
              ELSE [G EXCEPT !.order = Append(G.order, u),
                             !.node = SetItem(G.node, u, EmptyDict)]
        G2 == IF v \in DOMAIN G1.node THEN G1
              ELSE [G1 EXCEPT !.order = Append(G1.order, v),
                              !.node = SetItem(G1.node, v, EmptyDict)]
        e == {u, v}
        datadict == IF e \in DOMAIN G2.adj THEN G2.adj[e] ELSE EmptyDict
    IN  [G2 EXCEPT !.adj = SetItem(G2.adj, e, Update(attr, datadict))]

\* Graph.add_edge(u, v, **attr): absent endpoints are created bare, and the
\* edge's dictionary (a new one when the edge is new) is updated with attr
add_edge(G, u, v, attr) ==
    LET G1 == IF u \in DOMAIN G.node THEN G ELSE add_node(G, u, EmptyDict)
        G2 == IF v \in DOMAIN G1.node THEN G1 ELSE add_node(G1, v, EmptyDict)
        e == {u, v}
        datadict == IF e \in DOMAIN G2.adj THEN G2.adj[e] ELSE EmptyDict
    IN  [G2 EXCEPT !.adj = SetItem(G2.adj, e, Update(datadict, attr))]

\* a degree that does not count self-loops
degree_no_loops(G, n) ==
    Cardinality({e \in DOMAIN G.adj : n \in e /\ e # {n}})

\* Graph.degree: the number of incident edges, a self-loop counted twice
degree(G, n) ==
    Cardinality({e \in DOMAIN G.adj : n \in e})
    + (IF {n} \in DOMAIN G.adj THEN 1 ELSE 0)

\* isolates that also takes the nodes of degree one
isolates_leaves(G) ==
    {n \in DOMAIN G.node :
        Cardinality({e \in DOMAIN G.adj : n \in e})
        + (IF {n} \in DOMAIN G.adj THEN 1 ELSE 0) <= 1}

\* nx.isolates(G): the nodes of degree zero, in node order
isolates(G) == {n \in DOMAIN G.node : degree(G, n) = 0}

\* Graph.remove_nodes_from(ns): the nodes go, with every edge at them
remove_nodes_from(G, ns) ==
    [order |-> FilterSeq(G.order, DOMAIN G.node \ ns),
     node |-> DelItems(G.node, ns),
     adj |-> DelItems(G.adj, {e \in DOMAIN G.adj : e \cap ns # {}})]

\* Graph.subgraph(c).copy(): the subgraph induced by the node set c
subgraph(G, c) ==
    [order |-> FilterSeq(G.order, c),
     node |-> [n \in DOMAIN G.node \cap c |-> G.node[n]],
     adj |-> [e \in {d \in DOMAIN G.adj : d \subseteq c} |-> G.adj[e]]]

\* _plain_bfs: the nodes reachable from the nodes in seen
RECURSIVE _plain_bfs(_, _)
_plain_bfs(G, seen) ==
    LET next == seen \cup {n \in DOMAIN G.node :
                              \E m \in seen : {n, m} \in DOMAIN G.adj}
    IN  IF next = seen THEN seen ELSE _plain_bfs(G, next)

\* nx.connected_components over the nodes in the order todo: each node not
\* yet seen yields the component it lies in
RECURSIVE components_from(_, _, _)
components_from(G, todo, seen) ==
    IF todo = <<>> THEN <<>>
    ELSE IF Head(todo) \in seen THEN components_from(G, Tail(todo), seen)
    ELSE LET c == _plain_bfs(G, {Head(todo)})
         IN  <<c>> \o components_from(G, Tail(todo), seen \cup c)

connected_components(G) == components_from(G, G.order, {})

\* nx.connected_component_subgraphs(G)
connected_component_subgraphs(G) ==
    LET cs == connected_components(G)
    IN  [i \in 1 .. Len(cs) |-> subgraph(G, cs[i])]

\* len(G): the number of nodes
len(G) == Cardinality(DOMAIN G.node)

\* max(seq, key=len): the first element of greatest length
max_by_len(s) ==
    LET i == CHOOSE j \in 1 .. Len(s) :
                 /\ \A k \in 1 .. Len(s) : len(s[k]) <= len(s[j])
                 /\ \A k \in 1 .. (j - 1) : len(s[k]) < len(s[j])
    IN  s[i]

\* nx.is_connected(G): raises on the graph without nodes, otherwise tells
\* whether the nodes reached from the first node are all the nodes
is_connected(G) ==
    IF len(G) = 0 THEN Raised("NetworkXPointlessConcept")
    ELSE [value |-> (_plain_bfs(G, {Head(G.order)}) = DOMAIN G.node)]

(***************************************************************************)
(* main.py                                                                 *)
(***************************************************************************)
\* clean_isolated_nodes(graph): the graph after the call
clean_isolated_nodes(G) == remove_nodes_from(G, isolates(G))

\* fix_connectivity(graph): the value returned, or the exception raised
fix_connectivity(G) ==
    LET connected == is_connected(G)
    IN  IF IsRaised(connected) THEN connected
        ELSE IF ~connected.value
             THEN max_by_len(connected_component_subgraphs(G))
             ELSE None

\* the keyword arguments of the add_edge call of parse_graph_from_json
edge_attr(edge) ==
    [capacity |-> int(edge.capacity),
     last_update |-> edge.last_update,
     channel_id |-> edge.channel_id,
     chan_point |-> edge.chan_point,
     node1_timelock_delta |-> edge.node1_policy.time_lock_delta,
     node1_min_htlc |-> int(edge.node1_policy.min_htlc),
     node1_fee_base_msat |-> int(edge.node1_policy.fee_base_msat),
     node1_fee_rate_milli_msat |-> int(edge.node1_policy.fee_rate_milli_msat),
     node2_timelock_delta |-> edge.node2_policy.time_lock_delta,
     node2_min_htlc |-> int(edge.node2_policy.min_htlc),
     node2_fee_base_msat |-> int(edge.node2_policy.fee_base_msat),
     node2_fee_rate_milli_msat |-> int(edge.node2_policy.fee_rate_milli_msat)]

\* one pass of the node loop
node_loop_body(G, node) ==
    add_node(G, node.pub_key, [last_update |-> node.last_update])

\* an edge loop pass that, on a record with a null policy, also removes the
\* edge an earlier record made between the same endpoints
edge_loop_body_drop(st, edge) ==
    LET dropped == [st EXCEPT !.adj = DelItems(st.adj,
                                   {{edge.node1_pub, edge.node2_pub}})]
    IN  IF IsRaised(st) THEN st
        ELSE IF "node1_policy" \notin DOMAIN edge THEN Raised("KeyError")
        ELSE IF edge.node1_policy = None THEN dropped
        ELSE IF "node2_policy" \notin DOMAIN edge THEN Raised("KeyError")
        ELSE IF edge.node2_policy = None THEN dropped
        ELSE add_edge(st, edge.node1_pub, edge.node2_pub, edge_attr(edge))

\* one pass of the edge loop; st is the graph so far, or the exception
\* that already ended the loop
edge_loop_body(st, edge) ==
    IF IsRaised(st) THEN st
    ELSE IF "node1_policy" \notin DOMAIN edge THEN Raised("KeyError")
    ELSE IF edge.node1_policy = None THEN st
    ELSE IF "node2_policy" \notin DOMAIN edge THEN Raised("KeyError")
    ELSE IF edge.node2_policy = None THEN st
    ELSE add_edge(st, edge.node1_pub, edge.node2_pub, edge_attr(edge))

RECURSIVE node_loop(_, _)
node_loop(G, nodes) ==
    IF nodes = <<>> THEN G
    ELSE node_loop(node_loop_body(G, Head(nodes)), Tail(nodes))

RECURSIVE edge_loop(_, _)
edge_loop(st, edges) ==
    IF edges = <<>> THEN st
    ELSE edge_loop(edge_loop_body(st, Head(edges)), Tail(edges))

\* parse_graph_from_json(json_graph): the graph returned, or the exception
parse_graph_from_json(json) ==
    edge_loop(node_loop(NewGraph, json.nodes), json.edges)

(***************************************************************************)
(* Input documents.                                                        *)
(***************************************************************************)
\* the policy object announced for endpoint side of a channel record
Policy(ver, side) ==
    LET b == 20 * ver + 4 * side
    IN  [time_lock_delta |-> b + 1,
         min_htlc |-> IntStrTable[b + 2],
         fee_base_msat |-> IntStrTable[b + 3],
         fee_rate_milli_msat |-> IntStrTable[b + 4]]

\* a policy field of an edge record: "P" an object, "N" null, "M" no key
PolicyField(key, ver, side, p) ==
    IF p = "P" THEN SetItem(EmptyDict, key, Policy(ver, side))
    ELSE IF p = "N" THEN SetItem(EmptyDict, key, None)
    ELSE EmptyDict

EdgeRecord(u, v, ver, p1, p2) ==
    Update(Update([node1_pub |-> u,
                   node2_pub |-> v,
                   capacity |-> IntStrTable[20 * ver + 1],
                   last_update |-> 20 * ver + 2,
                   channel_id |-> IntStrTable[20 * ver + 3],
                   chan_point |-> IntStrTable[20 * ver + 4]],
                  PolicyField("node1_policy", ver, 1, p1)),
           PolicyField("node2_policy", ver, 2, p2))

NodeRecords(ids) == [pub_key : ids, last_update : Stamps]

\* records with both policies, in every version
CompleteRecords(pairs) ==
    {EdgeRecord(p[1], p[2], ver, "P", "P") : p \in pairs, ver \in Versions}

\* records with a policy that is null or has no key
IncompleteRecords(pairs) ==
    {EdgeRecord(p[1], p[2], 1, q[1], q[2]) :
        p \in pairs,
        q \in {<<"N", "P">>, <<"P", "N">>, <<"N", "M">>,
                <<"M", "P">>, <<"P", "M">>}}

\* the numbers of node and of edge records of a document of at most max
\* records
Sizes(max) == {m \in (0 .. max) \X (0 .. max) : m[1] + m[2] <= max}

\* the documents with k[1] node records and k[2] edge records
Documents(nodeRecs, edgeRecs, k) ==
    [nodes : [1 .. k[1] -> nodeRecs], edges : [1 .. k[2] -> edgeRecs]]

ParsePairs == {<<"A", "B">>, <<"B", "A">>, <<"A", "A">>}

ParseNodeRecords == NodeRecords(ParseIds)

ParseEdgeRecords ==
    CompleteRecords(ParsePairs) \cup IncompleteRecords(ParsePairs)

MainPairs == {<<"A", "A">>, <<"A", "B">>, <<"B", "A">>, <<"B", "C">>,
              <<"A", "C">>, <<"C", "C">>}

MainNodeRecords == [pub_key : Ids, last_update : {1}]

MainEdgeRecords == {EdgeRecord(p[1], p[2], 1, "P", "P") : p \in MainPairs}

(***************************************************************************)
(* main(): one action per statement of lines 94-100.                       *)
(***************************************************************************)
Call(op, in, out) == [op |-> op, in |-> in, out |-> out]

\* line 94: graph = parse_graph_from_json(json_graph)
Parse ==
    /\ pc = "parse"
    /\ LET r == parse_graph_from_json(json_graph)
       IN  /\ trace' = Append(trace, Call("parse_graph_from_json", json_graph, r))
           /\ IF IsRaised(r)
              THEN /\ pc' = "error"
                   /\ exc' = r.raised
                   /\ graph' = graph
              ELSE /\ pc' = "isolated"
                   /\ exc' = exc
                   /\ graph' = r
    /\ UNCHANGED <<json_graph, args>>

\* lines 95-96: if args.isolated is True: clean_isolated_nodes(graph)
Isolated ==
    /\ pc = "isolated"
    /\ IF args.isolated
       THEN /\ graph' = clean_isolated_nodes(graph)
            /\ trace' = Append(trace, Call("clean_isolated_nodes", graph, graph'))
       ELSE UNCHANGED <<graph, trace>>
    /\ pc' = "connected"
    /\ UNCHANGED <<json_graph, args, exc>>

\* lines 97-98: if args.connected is True: graph = fix_connectivity(graph)
Connected ==
    /\ pc = "connected"
    /\ IF args.connected
       THEN LET r == fix_connectivity(graph)
            IN  /\ trace' = Append(trace, Call("fix_connectivity", graph, r))
                /\ IF IsRaised(r)
                   THEN /\ pc' = "error"
                        /\ exc' = r.raised
                        /\ graph' = graph
                   ELSE /\ pc' = "export"
                        /\ exc' = exc
                        /\ graph' = r
       ELSE /\ pc' = "export"
            /\ UNCHANGED <<graph, exc, trace>>
    /\ UNCHANGED <<json_graph, args>>

\* nx.write_gexf(G, path): the writer reads G's attributes, which None
\* does not have
write_gexf(G) == IF G = None THEN Raised("AttributeError") ELSE None

\* line 100: nx.write_gexf(graph, args.output)
Export ==
    /\ pc = "export"
    /\ LET r == write_gexf(graph)
       IN  /\ trace' = Append(trace, Call("write_gexf", graph, r))
           /\ IF IsRaised(r)
              THEN pc' = "error" /\ exc' = r.raised
              ELSE pc' = "done" /\ exc' = exc
    /\ UNCHANGED <<json_graph, args, graph>>

Init ==
    /\ \E k \in Sizes(MaxMainRecords) :
          json_graph \in Documents(MainNodeRecords, MainEdgeRecords, k)
    /\ args \in [isolated : BOOLEAN, connected : BOOLEAN]
    /\ pc = "parse"
    /\ graph = None
    /\ exc = "none"
    /\ trace = <<>>

Next == Parse \/ Isolated \/ Connected \/ Export

Spec == Init /\ [][Next]_vars

\* parse_graph_from_json alone, on documents with incomplete edge records
InitParse ==
    /\ \E k \in Sizes(MaxRecords) :
          json_graph \in Documents(ParseNodeRecords, ParseEdgeRecords, k)
    /\ args = [isolated |-> FALSE, connected |-> FALSE]
    /\ pc = "parse"
    /\ graph = None
    /\ exc = "none"
    /\ trace = <<>>

NextParse == Parse

ParseSpec == InitParse /\ [][NextParse]_vars

(***************************************************************************)
(* Vocabulary of the properties.                                           *)
(***************************************************************************)
\* the positions of the trace where op was called
Calls(op) == {i \in 1 .. Len(trace) : trace[i].op = op}

\* a graph is connected when it has a node and every split of its nodes
\* into two non-empty parts is crossed by an edge
IsConnectedGraph(G) ==
    /\ Nodes(G) # {}
    /\ \A S \in SUBSET Nodes(G) :
          (S # {} /\ S # Nodes(G)) =>
              \E e \in Edges(G) : e \cap S # {} /\ e \ S # {}

\* the graph that G induces on the node set c
Induced(G, c) ==
    [node |-> [n \in Nodes(G) \cap c |-> G.node[n]],
     adj |-> [e \in {d \in Edges(G) : d \subseteq c} |-> G.adj[e]]]

\* c is a maximal connected set of nodes of G
IsComponent(G, c) ==
    /\ c \subseteq Nodes(G)
    /\ IsConnectedGraph(Induced(G, c))
    /\ \A e \in Edges(G) : e \cap c # {} => e \subseteq c

\* an edge record lacks a policy: the key is not there, or its value is null
Incomplete(edge) ==
    \/ "node1_policy" \notin DOMAIN edge
    \/ "node2_policy" \notin DOMAIN edge
    \/ edge.node1_policy = None
    \/ edge.node2_policy = None

Complete(edge) == ~Incomplete(edge)

\* the unordered pair of endpoints an edge record names
Pair(edge) == {edge.node1_pub, edge.node2_pub}

\* the parser was called and returned a graph
Parsed ==
    /\ Calls("parse_graph_from_json") # {}
    /\ IsGraph(trace[1].out)

\* the number of times x occurs in the sequence s
Count(s, x) == Cardinality({i \in 1 .. Len(s) : s[i] = x})

\* the calls main makes, in order, when no call raises
Expected ==
    <<"parse_graph_from_json">>
    \o (IF args.isolated THEN <<"clean_isolated_nodes">> ELSE <<>>)
    \o (IF args.connected THEN <<"fix_connectivity">> ELSE <<>>)
    \o <<"write_gexf">>

(***************************************************************************)
(* The properties.                                                         *)
(***************************************************************************)
\* C1: fix_connectivity on a connected graph returns a graph (not None) with
\* the same node set and the same edge set as its argument.
C1_ConnectedFixedPoint ==
    \A i \in Calls("fix_connectivity") :
        IsConnectedGraph(trace[i].in) =>
            /\ IsGraph(trace[i].out)
            /\ Nodes(trace[i].out) = Nodes(trace[i].in)
            /\ Edges(trace[i].out) = Edges(trace[i].in)

\* C2: fix_connectivity on the graph without nodes returns a graph without
\* nodes and without edges, and raises nothing.
C2_EmptyGraphNoError ==
    \A i \in Calls("fix_connectivity") :
        Nodes(trace[i].in) = {} =>
            /\ IsGraph(trace[i].out)
            /\ Nodes(trace[i].out) = {}
            /\ Edges(trace[i].out) = {}

\* C3: for every graph with a node, fix_connectivity returns the subgraph
\* induced by one maximal connected component, itself connected, with at
\* least as many nodes as every component of the argument.
C3_LargestComponent ==
    \A i \in Calls("fix_connectivity") :
        Nodes(trace[i].in) # {} =>
            /\ IsGraph(trace[i].out)
            /\ IsComponent(trace[i].in, Nodes(trace[i].out))
            /\ Induced(trace[i].in, Nodes(trace[i].out))
                   = [node |-> trace[i].out.node, adj |-> trace[i].out.adj]
            /\ IsConnectedGraph(trace[i].out)
            /\ \A c \in SUBSET Nodes(trace[i].in) :
                  IsComponent(trace[i].in, c) =>
                      Cardinality(c) <= Cardinality(Nodes(trace[i].out))

\* C4 as stated: the built graph has no edge between the endpoints of any
\* edge record that lacks a policy, whatever the other records are.
C4_NoEdgeForIncompletePair ==
    Parsed =>
        \A j \in 1 .. Len(json_graph.edges) :
            Incomplete(json_graph.edges[j]) =>
                Pair(json_graph.edges[j]) \notin Edges(trace[1].out)

\* C4 as amended: the edges of the built graph are exactly the pairs named
\* by the records that have both policies; a record that lacks a policy
\* contributes no edge, and its pair is joined only when another,
\* policy-complete record names the same pair.
C4_EdgesOnlyFromCompleteRecords ==
    Parsed =>
        Edges(trace[1].out)
            = {Pair(json_graph.edges[j]) :
                  j \in {k \in 1 .. Len(json_graph.edges) :
                            Complete(json_graph.edges[k])}}

\* C4 witness: a graph was built from a document in which a record with a
\* null policy and a complete record name the same pair, and another
\* incomplete record names a pair no complete record names.
C4_Witness ==
    /\ Parsed
    /\ \E j, k \in 1 .. Len(json_graph.edges) :
          /\ Incomplete(json_graph.edges[j])
          /\ Complete(json_graph.edges[k])
          /\ Pair(json_graph.edges[j]) = Pair(json_graph.edges[k])
    /\ \E j \in 1 .. Len(json_graph.edges) :
          /\ Incomplete(json_graph.edges[j])
          /\ Pair(json_graph.edges[j]) \notin Edges(trace[1].out)

\* C5: an edge record whose node1_policy or node2_policy is null or has no
\* key is skipped without an exception: the parser returns the graph it
\* returns for the document without the incomplete records.
C5_IncompleteSkippedSilently ==
    \A i \in Calls("parse_graph_from_json") :
        /\ ~IsRaised(trace[i].out)
        /\ trace[i].out
               = parse_graph_from_json(
                     [nodes |-> json_graph.nodes,
                      edges |-> SelectSeq(json_graph.edges, Complete)])

\* C6: the built graph has exactly one node per pub_key of the node records,
\* whose attribute dictionary is the last_update of the last node record
\* with that pub_key, whatever the edge records are.
C6_OneNodePerPubKey ==
    Parsed =>
        \A j \in 1 .. Len(json_graph.nodes) :
            LET key == json_graph.nodes[j].pub_key
                last == CHOOSE k \in 1 .. Len(json_graph.nodes) :
                            /\ json_graph.nodes[k].pub_key = key
                            /\ \A m \in (k + 1) .. Len(json_graph.nodes) :
                                  json_graph.nodes[m].pub_key # key
            IN  /\ key \in Nodes(trace[1].out)
                /\ Count(trace[1].out.order, key) = 1
                /\ trace[1].out.node[key]
                       = [last_update |-> json_graph.nodes[last].last_update]

\* C6 witness: two node records share a pub_key with different last_update
\* values, and a complete edge record has that pub_key as an endpoint.
C6_Witness ==
    /\ Parsed
    /\ \E j, k \in 1 .. Len(json_graph.nodes) :
          /\ j < k
          /\ json_graph.nodes[j].pub_key = json_graph.nodes[k].pub_key
          /\ json_graph.nodes[j].last_update # json_graph.nodes[k].last_update
          /\ \E m \in 1 .. Len(json_graph.edges) :
                /\ Complete(json_graph.edges[m])
                /\ json_graph.nodes[j].pub_key \in Pair(json_graph.edges[m])

\* C7: clean_isolated_nodes applied to its own result changes nothing:
\* nodes, node order, edges and attributes stay as they are.
C7_CleanIdempotent ==
    \A i \in Calls("clean_isolated_nodes") :
        clean_isolated_nodes(trace[i].out) = trace[i].out

\* C7 witness: clean_isolated_nodes removed a node from a graph and left a
\* node and an edge.
C7_Witness ==
    \E i \in Calls("clean_isolated_nodes") :
        /\ Nodes(trace[i].out) # Nodes(trace[i].in)
        /\ Nodes(trace[i].out) # {}
        /\ Edges(trace[i].out) # {}

\* C8: every edge of the built graph carries exactly the twelve attributes
\* of the last policy-complete record that names its unordered pair, in
\* either endpoint order.
C8_EdgeFromLastRecord ==
    Parsed =>
        \A e \in Edges(trace[1].out) :
            \E j \in 1 .. Len(json_graph.edges) :
                /\ Complete(json_graph.edges[j])
                /\ Pair(json_graph.edges[j]) = e
                /\ \A k \in (j + 1) .. Len(json_graph.edges) :
                      Complete(json_graph.edges[k]) =>
                          Pair(json_graph.edges[k]) # e
                /\ trace[1].out.adj[e] = edge_attr(json_graph.edges[j])

\* C8 witness: two complete records name the same pair in opposite endpoint
\* order with different attribute values.
C8_Witness ==
    /\ Parsed
    /\ \E j, k \in 1 .. Len(json_graph.edges) :
          /\ j < k
          /\ Complete(json_graph.edges[j])
          /\ Complete(json_graph.edges[k])
          /\ json_graph.edges[j].node1_pub = json_graph.edges[k].node2_pub
          /\ json_graph.edges[j].node2_pub = json_graph.edges[k].node1_pub
          /\ json_graph.edges[j].node1_pub # json_graph.edges[j].node2_pub
          /\ json_graph.edges[j].capacity # json_graph.edges[k].capacity

\* C9: main calls the parser, then clean_isolated_nodes if requested, then
\* fix_connectivity if requested, then write_gexf; each call works on the
\* graph the call before it left; and every run on a document the parser
\* accepts ends with write_gexf called exactly once, after the requested
\* reductions, and writing the graph.
C9_PipelineOrder ==
    /\ Len(trace) <= Len(Expected)
    /\ \A i \in 1 .. Len(trace) : trace[i].op = Expected[i]
    /\ \A i \in 2 .. Len(trace) : trace[i].in = trace[i - 1].out
    /\ (Parsed /\ pc \in {"done", "error"}) =>
          /\ pc = "done"
          /\ Len(trace) = Len(Expected)
          /\ Count([i \in 1 .. Len(trace) |-> trace[i].op], "write_gexf") = 1

\* C10: clean_isolated_nodes removes exactly the nodes that no edge touches:
\* the edges and their attributes, the attributes and the order of the
\* remaining nodes are unchanged, and every remaining node is an endpoint of
\* an edge, a node with only a self-loop included.
C10_CleanRemovesExactlyIsolated ==
    \A i \in Calls("clean_isolated_nodes") :
        LET G == trace[i].in
            R == trace[i].out
            touched == {n \in Nodes(G) : \E e \in Edges(G) : n \in e}
        IN  /\ Nodes(R) = touched
            /\ R.adj = G.adj
            /\ \A n \in touched : R.node[n] = G.node[n]
            /\ R.order = SelectSeq(G.order, LAMBDA n : n \in touched)
            /\ \A n \in Nodes(R) : \E e \in Edges(R) : n \in e

\* C10 witness: clean_isolated_nodes ran on a graph with a node no edge
\* touches and a node whose only edge is a self-loop.
C10_Witness ==
    \E i \in Calls("clean_isolated_nodes") :
        /\ Nodes(trace[i].out) # Nodes(trace[i].in)
        /\ \E n \in Nodes(trace[i].in) :
              {e \in Edges(trace[i].in) : n \in e} = {{n}}

====
